---------------------------- MODULE Spec2Model ----------------------------
(***************************************************************************)
(* A model of src/websockets.rs: the WebSockets value (one optional        *)
(* socket, three optional handler slots), its registration and connect     *)
(* operations, and the read / classify / decode / dispatch cycle of        *)
(* event_loop.                                                             *)
(*                                                                         *)
(* Text is modelled as a sequence of one-character strings, so that        *)
(* str::find is a real, case-sensitive substring search.  A Rust Option is *)
(* a sequence of length at most one: None is <<>> and Some(x) is <<x>>.    *)
(* A failed unwrap() is a panic: it unwinds event_loop to its caller and   *)
(* nothing of the loop runs afterwards (pc = "panicked").                  *)
(***************************************************************************)
EXTENDS Naturals, Sequences, FiniteSets

(***************************************************************************)
(* Bounds of the model.                                                    *)
(***************************************************************************)
\* a payload is a concatenation of at most MaxFrags fragments
MaxFrags == 2
\* at most MaxRegs handler registrations in all
MaxRegs == 2
\* at most MaxConnects successful connects
MaxConnects == 2

(***************************************************************************)
(* The marker constants, websockets.rs lines 15-22.                        *)
(***************************************************************************)
OUTBOUND_ACCOUNT_INFO == <<"o", "u", "t", "b", "o", "u", "n", "d", "A", "c", "c", "o", "u", "n", "t", "I", "n", "f", "o">>
EXECUTION_REPORT == <<"e", "x", "e", "c", "u", "t", "i", "o", "n", "R", "e", "p", "o", "r", "t">>
KLINE == <<"k", "l", "i", "n", "e">>
AGGREGATED_TRADE == <<"a", "g", "g", "T", "r", "a", "d", "e">>
TRADE == <<"t", "r", "a", "d", "e">>
DEPTH_DIFF == <<"d", "e", "p", "t", "h", "U", "p", "d", "a", "t", "e">>
ORDERBOOK == <<"l", "a", "s", "t", "U", "p", "d", "a", "t", "e", "I", "d">>

(***************************************************************************)
(* Option values.                                                          *)
(***************************************************************************)
None == <<>>
Some(x) == <<x>>

(***************************************************************************)
(* The payloads the channel may deliver: every concatenation of at most    *)
(* MaxFrags fragments.  The fragments are the seven markers and two pieces *)
(* that are no marker by themselves: "agg" and "Trade" (which concatenate  *)
(* to the marker "aggTrade", across a fragment boundary).                  *)
(***************************************************************************)
FragAgg == <<"a", "g", "g">>
FragTrade == <<"T", "r", "a", "d", "e">>

Fragments ==
    { OUTBOUND_ACCOUNT_INFO, EXECUTION_REPORT, KLINE, AGGREGATED_TRADE, TRADE,
      DEPTH_DIFF, ORDERBOOK, FragAgg, FragTrade }

RECURSIVE PayloadsUpTo(_)
PayloadsUpTo(n) ==
    IF n = 0 THEN { <<>> }
    ELSE LET shorter == PayloadsUpTo(n - 1)
         IN  shorter \cup { p \o f : p \in shorter, f \in Fragments }

Payloads == PayloadsUpTo(MaxFrags)

\* what `socket.0.read_message().unwrap().into_text().unwrap()` can meet:
\* a read error, a frame that is no text, or a text payload
ReadResults ==
    { [kind |-> "ReadErr", text |-> <<>>], [kind |-> "NotText", text |-> <<>>] }
        \cup { [kind |-> "Text", text |-> p] : p \in Payloads }

(***************************************************************************)
(* msg.find(PATTERN) != None: a case-sensitive substring search.           *)
(***************************************************************************)
Contains(m, pat) ==
    \E i \in 1..(Len(m) + 1 - Len(pat)) : SubSeq(m, i, i + Len(pat) - 1) = pat

(***************************************************************************)
(* The branch of the if / else-if chain of event_loop that a payload       *)
(* takes, named by the event category it handles.                          *)
(***************************************************************************)
\* faulty variant: the markers tested in the order their constants are declared
ClassifyDeclarationOrder(m) ==
    IF Contains(m, OUTBOUND_ACCOUNT_INFO) THEN "AccountUpdate"
    ELSE IF Contains(m, EXECUTION_REPORT) THEN "OrderTrade"
    ELSE IF Contains(m, KLINE) THEN "Kline"
    ELSE IF Contains(m, AGGREGATED_TRADE) THEN "AggregatedTrade"
    ELSE IF Contains(m, TRADE) THEN "Trade"
    ELSE IF Contains(m, DEPTH_DIFF) THEN "DepthDiff"
    ELSE IF Contains(m, ORDERBOOK) THEN "PartialOrderBook"
    ELSE "Unknown"

\* faulty variant: "trade" tested before "aggTrade"
ClassifyTradeFirst(m) ==
    IF Contains(m, OUTBOUND_ACCOUNT_INFO) THEN "AccountUpdate"
    ELSE IF Contains(m, EXECUTION_REPORT) THEN "OrderTrade"
    ELSE IF Contains(m, TRADE) THEN "Trade"
    ELSE IF Contains(m, AGGREGATED_TRADE) THEN "AggregatedTrade"
    ELSE IF Contains(m, KLINE) THEN "Kline"
    ELSE IF Contains(m, ORDERBOOK) THEN "PartialOrderBook"
    ELSE IF Contains(m, DEPTH_DIFF) THEN "DepthDiff"
    ELSE "Unknown"

Classify(m) ==
    IF Contains(m, OUTBOUND_ACCOUNT_INFO) THEN "AccountUpdate"
    ELSE IF Contains(m, EXECUTION_REPORT) THEN "OrderTrade"
    ELSE IF Contains(m, AGGREGATED_TRADE) THEN "AggregatedTrade"
    ELSE IF Contains(m, TRADE) THEN "Trade"
    ELSE IF Contains(m, KLINE) THEN "Kline"
    ELSE IF Contains(m, ORDERBOOK) THEN "PartialOrderBook"
    ELSE IF Contains(m, DEPTH_DIFF) THEN "DepthDiff"
    ELSE "Unknown"

\* the type each branch decodes to (the annotation of its from_str call)
EventTypeOf(cat) ==
    CASE cat = "AccountUpdate" -> "AccountUpdateEvent"
      [] cat = "OrderTrade" -> "OrderTradeEvent"
      [] cat = "AggregatedTrade" -> "AggTradeEvent"
      [] cat = "Trade" -> "TradeEvent"
      [] cat = "Kline" -> "KlineEvent"
      [] cat = "PartialOrderBook" -> "OrderBook"
      [] cat = "DepthDiff" -> "DepthDiffEvent"

\* the handler slot each branch looks up
GroupOf(cat) ==
    CASE cat \in {"AccountUpdate", "OrderTrade"} -> "user_stream"
      [] cat \in {"AggregatedTrade", "Trade", "PartialOrderBook", "DepthDiff"} -> "market"
      [] cat = "Kline" -> "kline"

\* faulty variant: the two order-book branches call each other's method
MethodOfBooksSwapped(cat) ==
    CASE cat = "AccountUpdate" -> "account_update_handler"
      [] cat = "OrderTrade" -> "order_trade_handler"
      [] cat = "AggregatedTrade" -> "aggregated_trades_handler"
      [] cat = "Trade" -> "trade_handler"
      [] cat = "Kline" -> "kline_handler"
      [] cat = "PartialOrderBook" -> "depth_diff_handler"
      [] cat = "DepthDiff" -> "partial_orderbook_handler"

\* the trait method each branch calls
MethodOf(cat) ==
    CASE cat = "AccountUpdate" -> "account_update_handler"
      [] cat = "OrderTrade" -> "order_trade_handler"
      [] cat = "AggregatedTrade" -> "aggregated_trades_handler"
      [] cat = "Trade" -> "trade_handler"
      [] cat = "Kline" -> "kline_handler"
      [] cat = "PartialOrderBook" -> "partial_orderbook_handler"
      [] cat = "DepthDiff" -> "depth_diff_handler"

\* from_str(msg.as_str()) when it succeeds: the typed event of that payload
Decode(type, m) == [type |-> type, payload |-> m]

\* the branch of every payload of the model, computed once
ClassOf == [p \in Payloads |-> Classify(p)]

(***************************************************************************)
(* State.                                                                  *)
(*   socket, user_stream_handler, market_handler, kline_handler: the       *)
(*       fields of WebSockets (a handler is named by the number of its     *)
(*       registration, a socket by the number of its connect);             *)
(*   nextHandler: the number the next registered handler gets;             *)
(*   registered:  per group, the handlers ever registered (history);       *)
(*   pc:   "idle" (no call in progress), "loop" (event_loop, at the top of *)
(*         its loop), "handler" (event_loop, inside a handler method),     *)
(*         "end" (event_loop, at the end of the loop body), "panicked"     *)
(*         (event_loop unwound by a failed unwrap);                        *)
(*   ret:  the last call made on the value and its outcome;                *)
(*   msg, category, decodes, calls: the current pass of the loop: the      *)
(*         payload read (an Option), the branch taken, the from_str calls  *)
(*         made and the handler methods invoked.  They are the locals of   *)
(*         the loop body and are dropped when it goes round.               *)
(***************************************************************************)
VARIABLES socket, user_stream_handler, market_handler, kline_handler,
          nextHandler, registered, pc, ret,
          msg, category, decodes, calls

slots == <<user_stream_handler, market_handler, kline_handler>>
history == <<nextHandler, registered>>
cycle == <<msg, category, decodes, calls>>
vars == <<socket, slots, history, pc, ret, cycle>>

Groups == {"user_stream", "market", "kline"}

\* WebSockets::new
Init ==
    /\ socket = None
    /\ user_stream_handler = None
    /\ market_handler = None
    /\ kline_handler = None
    /\ nextHandler = 1
    /\ registered = [g \in Groups |-> {}]
    /\ pc = "idle"
    /\ ret = [op |-> "new", result |-> "Ok"]
    /\ msg = None
    /\ category = "None"
    /\ decodes = <<>>
    /\ calls = <<>>

(***************************************************************************)
(* connect: Url::parse fails, or the handshake fails, or the answer is     *)
(* stored.  Which of the three happens is the environment's choice.        *)
(***************************************************************************)
NextSocket == IF socket = None THEN 1 ELSE socket[1] + 1

\* faulty variant: a connect that succeeds starts from a fresh value, so the
\* handlers registered before it are lost
ConnectOkResetsHandlers ==
    /\ pc = "idle"
    /\ NextSocket <= MaxConnects
    /\ socket' = Some(NextSocket)
    /\ user_stream_handler' = None
    /\ market_handler' = None
    /\ kline_handler' = None
    /\ ret' = [op |-> "connect", result |-> "Ok"]
    /\ UNCHANGED <<history, pc, cycle>>

ConnectOk ==
    /\ pc = "idle"
    /\ NextSocket <= MaxConnects
    /\ socket' = Some(NextSocket)
    /\ ret' = [op |-> "connect", result |-> "Ok"]
    /\ UNCHANGED <<slots, history, pc, cycle>>

ConnectUrlError ==
    /\ pc = "idle"
    /\ ret' = [op |-> "connect", result |-> "UrlParseError"]
    /\ UNCHANGED <<socket, slots, history, pc, cycle>>

\* faulty variant: a failed handshake drops the socket of an earlier connect
ConnectHandshakeErrorDropsSocket ==
    /\ pc = "idle"
    /\ socket' = None
    /\ ret' = [op |-> "connect", result |-> "HandshakeError"]
    /\ UNCHANGED <<slots, history, pc, cycle>>

ConnectHandshakeError ==
    /\ pc = "idle"
    /\ ret' = [op |-> "connect", result |-> "HandshakeError"]
    /\ UNCHANGED <<socket, slots, history, pc, cycle>>

Connect == ConnectOk \/ ConnectUrlError \/ ConnectHandshakeError

(***************************************************************************)
(* The three registrations.                                                *)
(***************************************************************************)
Register(g) ==
    /\ nextHandler' = nextHandler + 1
    /\ registered' = [registered EXCEPT ![g] = @ \cup {nextHandler}]

AddUserStreamHandler ==
    /\ pc = "idle"
    /\ nextHandler <= MaxRegs
    /\ user_stream_handler' = Some(nextHandler)
    /\ Register("user_stream")
    /\ ret' = [op |-> "add_user_stream_handler", result |-> "Ok"]
    /\ UNCHANGED <<socket, market_handler, kline_handler, pc, cycle>>

\* faulty variant: a handler already in the slot is kept (the first registration wins)
AddMarketHandlerKeepsFirst ==
    /\ pc = "idle"
    /\ nextHandler <= MaxRegs
    /\ market_handler' = (IF market_handler = None THEN Some(nextHandler)
                                                   ELSE market_handler)
    /\ Register("market")
    /\ ret' = [op |-> "add_market_handler", result |-> "Ok"]
    /\ UNCHANGED <<socket, user_stream_handler, kline_handler, pc, cycle>>

AddMarketHandler ==
    /\ pc = "idle"
    /\ nextHandler <= MaxRegs
    /\ market_handler' = Some(nextHandler)
    /\ Register("market")
    /\ ret' = [op |-> "add_market_handler", result |-> "Ok"]
    /\ UNCHANGED <<socket, user_stream_handler, kline_handler, pc, cycle>>

AddKlineHandler ==
    /\ pc = "idle"
    /\ nextHandler <= MaxRegs
    /\ kline_handler' = Some(nextHandler)
    /\ Register("kline")
    /\ ret' = [op |-> "add_kline_handler", result |-> "Ok"]
    /\ UNCHANGED <<socket, user_stream_handler, market_handler, pc, cycle>>

(***************************************************************************)
(* event_loop.  One pass of the loop body is one step, from the top of the *)
(* loop to the point where control leaves this code: into a handler method *)
(* (pc = "handler"), to the end of the body (pc = "end") or out of the     *)
(* function by a panic (pc = "panicked").                                  *)
(***************************************************************************)
\* the call: control enters the loop
EventLoopCall ==
    /\ pc = "idle"
    /\ pc' = "loop"
    /\ ret' = [op |-> "event_loop", result |-> "Running"]
    /\ UNCHANGED <<socket, slots, history, cycle>>

\* the slot a branch looks up
SlotOf(cat) ==
    CASE GroupOf(cat) = "user_stream" -> user_stream_handler
      [] GroupOf(cat) = "market" -> market_handler
      [] GroupOf(cat) = "kline" -> kline_handler

\* a pass with socket None: the `if let` does not match and the body is skipped
IterNoSocket ==
    /\ pc = "loop"
    /\ socket = None
    /\ pc' = "end"
    /\ UNCHANGED <<socket, slots, history, ret, cycle>>

\* faulty variant: a failed read is skipped and the loop goes on to read again
IterReadErrorSkipped ==
    /\ pc = "loop"
    /\ socket # None
    /\ \E r \in ReadResults :
          /\ r.kind # "Text"
          /\ ret' = [op |-> "event_loop", result |-> r.kind]
    /\ pc' = "end"
    /\ UNCHANGED <<socket, slots, history, cycle>>

\* read_message() or into_text() gives Err: the unwrap panics
IterReadPanic ==
    /\ pc = "loop"
    /\ socket # None
    /\ \E r \in ReadResults :
          /\ r.kind # "Text"
          /\ ret' = [op |-> "event_loop", result |-> r.kind]
    /\ pc' = "panicked"
    /\ UNCHANGED <<socket, slots, history, cycle>>

\* faulty variant: a final `else` that panics on a payload no branch takes
IterUnknownPanics ==
    /\ pc = "loop"
    /\ socket # None
    /\ \E r \in ReadResults :
          /\ r.kind = "Text"
          /\ ClassOf[r.text] = "Unknown"
          /\ msg' = Some(r.text)
    /\ category' = "Unknown"
    /\ pc' = "panicked"
    /\ ret' = [op |-> "event_loop", result |-> "UnknownPayload"]
    /\ UNCHANGED <<socket, slots, history, decodes, calls>>

\* a payload that takes no branch
IterUnknown ==
    /\ pc = "loop"
    /\ socket # None
    /\ \E r \in ReadResults :
          /\ r.kind = "Text"
          /\ ClassOf[r.text] = "Unknown"
          /\ msg' = Some(r.text)
    /\ category' = "Unknown"
    /\ pc' = "end"
    /\ UNCHANGED <<socket, slots, history, ret, decodes, calls>>

\* faulty variant: a payload that does not decode is dropped and the loop goes on
IterDecodeErrorSkipped ==
    /\ pc = "loop"
    /\ socket # None
    /\ \E r \in ReadResults :
          /\ r.kind = "Text"
          /\ LET cat == ClassOf[r.text]
             IN  /\ cat # "Unknown"
                 /\ msg' = Some(r.text)
                 /\ category' = cat
                 /\ decodes' = <<[type |-> EventTypeOf(cat), ok |-> FALSE]>>
    /\ pc' = "end"
    /\ UNCHANGED <<socket, slots, history, ret, calls>>

\* faulty variant: the slot is tested before from_str, so with an empty slot
\* a payload that does not decode is never decoded and is dropped
IterDecodePanicAfterLookup ==
    /\ pc = "loop"
    /\ socket # None
    /\ \E r \in ReadResults :
          /\ r.kind = "Text"
          /\ LET cat == ClassOf[r.text]
             IN  /\ cat # "Unknown"
                 /\ msg' = Some(r.text)
                 /\ category' = cat
                 /\ IF SlotOf(cat) # None
                    THEN /\ decodes' = <<[type |-> EventTypeOf(cat), ok |-> FALSE]>>
                         /\ pc' = "panicked"
                         /\ ret' = [op |-> "event_loop", result |-> "DecodeErr"]
                    ELSE /\ decodes' = <<>>
                         /\ pc' = "end"
                         /\ UNCHANGED ret
    /\ UNCHANGED <<socket, slots, history, calls>>

\* a payload that takes a branch whose from_str gives Err: the unwrap panics
IterDecodePanic ==
    /\ pc = "loop"
    /\ socket # None
    /\ \E r \in ReadResults :
          /\ r.kind = "Text"
          /\ LET cat == ClassOf[r.text]
             IN  /\ cat # "Unknown"
                 /\ msg' = Some(r.text)
                 /\ category' = cat
                 /\ decodes' = <<[type |-> EventTypeOf(cat), ok |-> FALSE]>>
    /\ pc' = "panicked"
    /\ ret' = [op |-> "event_loop", result |-> "DecodeErr"]
    /\ UNCHANGED <<socket, slots, history, calls>>

\* faulty variant: the slot is unwrapped instead of tested, so an empty slot panics
IterDispatchUnwrapsSlot ==
    /\ pc = "loop"
    /\ socket # None
    /\ \E r \in ReadResults :
          /\ r.kind = "Text"
          /\ LET cat == ClassOf[r.text]
             IN  /\ cat # "Unknown"
                 /\ msg' = Some(r.text)
                 /\ category' = cat
                 /\ decodes' = <<[type |-> EventTypeOf(cat), ok |-> TRUE]>>
                 /\ IF SlotOf(cat) # None
                    THEN /\ calls' = <<[handler |-> SlotOf(cat)[1],
                                        method |-> MethodOf(cat),
                                        event |-> Decode(EventTypeOf(cat), r.text)]>>
                         /\ pc' = "handler"
                         /\ UNCHANGED ret
                    ELSE /\ calls' = <<>>
                         /\ pc' = "panicked"
                         /\ ret' = [op |-> "event_loop", result |-> "NoHandler"]
    /\ UNCHANGED <<socket, slots, history>>

\* faulty variant: the method is started and not waited for
IterDispatchDoesNotWait ==
    /\ pc = "loop"
    /\ socket # None
    /\ \E r \in ReadResults :
          /\ r.kind = "Text"
          /\ LET cat == ClassOf[r.text]
             IN  /\ cat # "Unknown"
                 /\ msg' = Some(r.text)
                 /\ category' = cat
                 /\ decodes' = <<[type |-> EventTypeOf(cat), ok |-> TRUE]>>
                 /\ calls' = (IF SlotOf(cat) # None
                              THEN <<[handler |-> SlotOf(cat)[1],
                                      method |-> MethodOf(cat),
                                      event |-> Decode(EventTypeOf(cat), r.text)]>>
                              ELSE <<>>)
    /\ pc' = "end"
    /\ UNCHANGED <<socket, slots, history, ret>>

\* faulty variant: the handler is taken out of its slot to be called
IterDispatchTakesHandler ==
    /\ pc = "loop"
    /\ socket # None
    /\ \E r \in ReadResults :
          /\ r.kind = "Text"
          /\ LET cat == ClassOf[r.text]
             IN  /\ cat # "Unknown"
                 /\ msg' = Some(r.text)
                 /\ category' = cat
                 /\ decodes' = <<[type |-> EventTypeOf(cat), ok |-> TRUE]>>
                 /\ IF SlotOf(cat) # None
                    THEN /\ calls' = <<[handler |-> SlotOf(cat)[1],
                                        method |-> MethodOf(cat),
                                        event |-> Decode(EventTypeOf(cat), r.text)]>>
                         /\ pc' = "handler"
                    ELSE /\ calls' = <<>>
                         /\ pc' = "end"
                 /\ user_stream_handler' =
                        (IF GroupOf(cat) = "user_stream" THEN None ELSE user_stream_handler)
                 /\ market_handler' =
                        (IF GroupOf(cat) = "market" THEN None ELSE market_handler)
                 /\ kline_handler' =
                        (IF GroupOf(cat) = "kline" THEN None ELSE kline_handler)
    /\ UNCHANGED <<socket, history, ret>>

\* a payload that takes a branch and decodes: the method of the branch is
\* called on the handler of the slot, if there is one
IterDispatch ==
    /\ pc = "loop"
    /\ socket # None
    /\ \E r \in ReadResults :
          /\ r.kind = "Text"
          /\ LET cat == ClassOf[r.text]
             IN  /\ cat # "Unknown"
                 /\ msg' = Some(r.text)
                 /\ category' = cat
                 /\ decodes' = <<[type |-> EventTypeOf(cat), ok |-> TRUE]>>
                 /\ IF SlotOf(cat) # None
                    THEN /\ calls' = <<[handler |-> SlotOf(cat)[1],
                                        method |-> MethodOf(cat),
                                        event |-> Decode(EventTypeOf(cat), r.text)]>>
                         /\ pc' = "handler"
                    ELSE /\ calls' = <<>>
                         /\ pc' = "end"
    /\ UNCHANGED <<socket, slots, history, ret>>

\* faulty variant: event_loop returns once a handler method has returned
HandlerReturnStops ==
    /\ pc = "handler"
    /\ pc' = "idle"
    /\ ret' = [op |-> "event_loop", result |-> "Returned"]
    /\ UNCHANGED <<socket, slots, history, cycle>>

\* the handler method returns: the end of the body is reached
HandlerReturn ==
    /\ pc = "handler"
    /\ pc' = "end"
    /\ UNCHANGED <<socket, slots, history, ret, cycle>>

\* faulty variant: the body is not in a loop, event_loop returns at its end
LoopBackReturns ==
    /\ pc = "end"
    /\ pc' = "idle"
    /\ msg' = None
    /\ category' = "None"
    /\ decodes' = <<>>
    /\ calls' = <<>>
    /\ ret' = [op |-> "event_loop", result |-> "Returned"]
    /\ UNCHANGED <<socket, slots, history>>

\* `loop`: the locals of the body are dropped and the loop goes round
LoopBack ==
    /\ pc = "end"
    /\ pc' = "loop"
    /\ msg' = None
    /\ category' = "None"
    /\ decodes' = <<>>
    /\ calls' = <<>>
    /\ UNCHANGED <<socket, slots, history, ret>>

EventLoop ==
    \/ IterNoSocket
    \/ IterReadPanic
    \/ IterUnknown
    \/ IterDecodePanic
    \/ IterDispatch
    \/ HandlerReturn
    \/ LoopBack

Next ==
    \/ Connect
    \/ AddUserStreamHandler
    \/ AddMarketHandler
    \/ AddKlineHandler
    \/ EventLoopCall
    \/ EventLoop

Spec == Init /\ [][Next]_vars

(***************************************************************************)
(* The same program under the conditions that keep the loop going: every   *)
(* handler method that is called returns, the thread goes on from the end  *)
(* of the body to the top of the loop, and the channel delivers a frame    *)
(* that decodes whenever the loop waits for one.                           *)
(***************************************************************************)
SomePayloads == {Some(p) : p \in Payloads}

\* a pass that reads a frame and decodes it: the steps of IterUnknown and of
\* IterDispatch, written as a function of the payload read
FrameDelivered ==
    /\ pc = "loop"
    /\ socket # None
    /\ msg' \in SomePayloads
    /\ category' = ClassOf[msg'[1]]
    /\ decodes' = (IF category' = "Unknown" THEN <<>>
                   ELSE <<[type |-> EventTypeOf(category'), ok |-> TRUE]>>)
    /\ calls' = (IF category' = "Unknown" \/ SlotOf(category') = None THEN <<>>
                 ELSE <<[handler |-> SlotOf(category')[1],
                         method |-> MethodOf(category'),
                         event |-> Decode(EventTypeOf(category'), msg'[1])]>>)
    /\ pc' = (IF calls' = <<>> THEN "end" ELSE "handler")
    /\ UNCHANGED <<socket, slots, history, ret>>

\* FrameDelivered is no new step: it is IterUnknown or IterDispatch
FrameDeliveredIsARead == [][FrameDelivered <=> (IterUnknown \/ IterDispatch)]_vars

FairSpec ==
    /\ Spec
    /\ WF_vars(HandlerReturn)
    /\ WF_vars(LoopBack)
    /\ WF_vars(FrameDelivered)

(***************************************************************************)
(* The categories as the specification lists them: the markers in their    *)
(* priority order, each with its category, its handler group, its method   *)
(* and the type of its event.                                              *)
(***************************************************************************)
Priority ==
    << [marker |-> OUTBOUND_ACCOUNT_INFO, category |-> "AccountUpdate",
        group |-> "user_stream", method |-> "account_update_handler",
        type |-> "AccountUpdateEvent"],
       [marker |-> EXECUTION_REPORT, category |-> "OrderTrade",
        group |-> "user_stream", method |-> "order_trade_handler",
        type |-> "OrderTradeEvent"],
       [marker |-> AGGREGATED_TRADE, category |-> "AggregatedTrade",
        group |-> "market", method |-> "aggregated_trades_handler",
        type |-> "AggTradeEvent"],
       [marker |-> TRADE, category |-> "Trade",
        group |-> "market", method |-> "trade_handler",
        type |-> "TradeEvent"],
       [marker |-> KLINE, category |-> "Kline",
        group |-> "kline", method |-> "kline_handler",
        type |-> "KlineEvent"],
       [marker |-> ORDERBOOK, category |-> "PartialOrderBook",
        group |-> "market", method |-> "partial_orderbook_handler",
        type |-> "OrderBook"],
       [marker |-> DEPTH_DIFF, category |-> "DepthDiff",
        group |-> "market", method |-> "depth_diff_handler",
        type |-> "DepthDiffEvent"] >>

\* the places in Priority of the markers that occur in each payload
HitsOf == [p \in Payloads |-> {k \in DOMAIN Priority : Contains(p, Priority[k].marker)}]

\* the first of them (0 when no marker occurs)
FirstHit(p) ==
    IF HitsOf[p] = {} THEN 0
    ELSE CHOOSE k \in HitsOf[p] : \A j \in HitsOf[p] : k <= j

Categories == {Priority[k].category : k \in DOMAIN Priority} \cup {"Unknown"}

\* the handler in the slot of a group
Slot(g) ==
    CASE g = "user_stream" -> user_stream_handler
      [] g = "market" -> market_handler
      [] g = "kline" -> kline_handler

\* a payload has been read in the current pass of the loop
HasRead == msg # None

\* a from_str call of the current pass gave Err
DecodeFailed == \E i \in DOMAIN decodes : ~decodes[i].ok

(***************************************************************************)
(* C1: the category chosen for a payload is that of the first marker, in   *)
(* the order outboundAccountInfo, executionReport, aggTrade, trade, kline, *)
(* lastUpdateId, depthUpdate, that occurs in it as a substring, and        *)
(* Unknown when none occurs; a payload containing "outboundAccountInfo" is *)
(* AccountUpdate whatever else it contains; every payload gets exactly one  *)
(* category.                                                               *)
(***************************************************************************)
C1_FirstMarkerWins ==
    HasRead =>
        /\ category \in Categories
        /\ category = (IF FirstHit(msg[1]) = 0 THEN "Unknown"
                       ELSE Priority[FirstHit(msg[1])].category)
        /\ (1 \in HitsOf[msg[1]] => category = "AccountUpdate")

\* "trade" then "outboundAccountInfo": two markers, the later one wins
C1_Witness ==
    /\ msg = Some(TRADE \o OUTBOUND_ACCOUNT_INFO)
    /\ category = "AccountUpdate"

(***************************************************************************)
(* C2: a payload that contains "aggTrade" and neither                      *)
(* "outboundAccountInfo" nor "executionReport" is classified               *)
(* AggregatedTrade, is decoded as AggTradeEvent, and only                  *)
(* aggregated_trades_handler is invoked for it, whether or not it also     *)
(* contains "trade".                                                       *)
(***************************************************************************)
C2_AggTradeNeverTrade ==
    (HasRead /\ 3 \in HitsOf[msg[1]] /\ 1 \notin HitsOf[msg[1]] /\ 2 \notin HitsOf[msg[1]]) =>
        /\ category = "AggregatedTrade"
        /\ \A i \in DOMAIN decodes : decodes[i].type = "AggTradeEvent"
        /\ \A i \in DOMAIN calls :
              /\ calls[i].method = "aggregated_trades_handler"
              /\ calls[i].event.type = "AggTradeEvent"

\* a payload with both markers, handed to aggregated_trades_handler
C2_Witness ==
    /\ msg = Some(TRADE \o AGGREGATED_TRADE)
    /\ Len(calls) = 1
    /\ calls[1].method = "aggregated_trades_handler"

\* C2 as stated: a payload that contains "aggTrade" therefore also contains
\* "trade" (and is classified AggregatedTrade)
C2_AsStated ==
    (HasRead /\ 3 \in HitsOf[msg[1]]) => 4 \in HitsOf[msg[1]]

(***************************************************************************)
(* C3: when the payload of a known category decodes and a handler is       *)
(* registered for the category's group, exactly one method is invoked in   *)
(* the cycle: the category's method, on that handler, with the event       *)
(* decoded from that payload.                                              *)
(***************************************************************************)
C3_ExactlyOneMethod ==
    (HasRead /\ FirstHit(msg[1]) # 0 /\ ~DecodeFailed) =>
        LET c == Priority[FirstHit(msg[1])]
        IN  Slot(c.group) # None =>
               /\ pc \in {"handler", "end"}
               /\ decodes = << [type |-> c.type, ok |-> TRUE] >>
               /\ calls = << [handler |-> Slot(c.group)[1],
                              method |-> c.method,
                              event |-> [type |-> c.type, payload |-> msg[1]]] >>

\* scenario 1: a trade frame, the trade method invoked once with its event;
\* scenario 2: a depthUpdate frame would do as well
C3_Witness ==
    /\ msg = Some(TRADE)
    /\ market_handler = Some(1)
    /\ pc = "handler"
    /\ calls = << [handler |-> 1, method |-> "trade_handler",
                   event |-> [type |-> "TradeEvent", payload |-> TRADE]] >>

\* the payload read in the current pass contains none of the seven markers
NoMarker == HasRead /\ HitsOf[msg[1]] = {}

\* event_loop is running and has raised no error
Running == ret = [op |-> "event_loop", result |-> "Running"]

\* the methods of each handler group
MethodsOf(g) == {Priority[k].method : k \in {j \in DOMAIN Priority : Priority[j].group = g}}

\* the latest registration of a group (its handlers are numbered as they come)
Latest(g) == CHOOSE h \in registered[g] : \A o \in registered[g] : o <= h

(***************************************************************************)
(* C4: a payload with none of the seven markers is not decoded, reaches no *)
(* handler and raises no error, and the loop goes on to its next read.     *)
(***************************************************************************)
C4_UnknownDropped ==
    /\ [](NoMarker =>
            /\ category = "Unknown"
            /\ decodes = <<>>
            /\ calls = <<>>
            /\ pc = "end"
            /\ Running)
    /\ [][NoMarker => (pc' = "loop" /\ Running')]_vars

\* "Trade" with a capital T is no marker
C4_Witness ==
    /\ msg = Some(FragTrade)
    /\ category = "Unknown"
    /\ pc = "end"

(***************************************************************************)
(* C5: each group's slot holds the handler of the latest registration for  *)
(* that group (and nothing when there was none), and every method invoked  *)
(* is invoked on the latest handler of its group, never on an earlier one. *)
(***************************************************************************)
C5_LastRegistrationWins ==
    /\ \A g \in Groups :
          Slot(g) = (IF registered[g] = {} THEN None ELSE Some(Latest(g)))
    /\ \A i \in DOMAIN calls : \A g \in Groups :
          calls[i].method \in MethodsOf(g) =>
              /\ registered[g] # {}
              /\ calls[i].handler = Latest(g)

\* two registrations for the Market group, an event delivered to the second
C5_Witness ==
    /\ registered["market"] = {1, 2}
    /\ Len(calls) = 1
    /\ calls[1].method \in MethodsOf("market")
    /\ calls[1].handler = 2

(***************************************************************************)
(* C6: when a frame of a known category arrives, no handler is registered  *)
(* for the category's group and the payload decodes, the payload is        *)
(* decoded, no method is invoked, no error is raised and the loop goes on  *)
(* to its next read.                                                       *)
(***************************************************************************)
C6_NoHandler ==
    (HasRead /\ FirstHit(msg[1]) # 0 /\ ~DecodeFailed) =>
        LET c == Priority[FirstHit(msg[1])]
        IN  Slot(c.group) = None =>
               /\ decodes = << [type |-> c.type, ok |-> TRUE] >>
               /\ calls = <<>>
               /\ pc = "end"
               /\ Running

\* a kline frame with a market handler and no kline handler
C6_Witness ==
    /\ msg = Some(KLINE)
    /\ kline_handler = None
    /\ market_handler # None
    /\ decodes = << [type |-> "KlineEvent", ok |-> TRUE] >>
    /\ pc = "end"

\* C6 as stated: whenever a frame of a known category arrives and no handler
\* is registered for its group, no error is raised and the loop continues
C6_AsStated ==
    (HasRead /\ FirstHit(msg[1]) # 0) =>
        (Slot(Priority[FirstHit(msg[1])].group) = None =>
            /\ calls = <<>>
            /\ pc = "end"
            /\ Running)

(***************************************************************************)
(* C7: when the read fails, event_loop ends by the panic of the unwrap:    *)
(* that pass reads no payload, decodes nothing and invokes nothing, and    *)
(* nothing of the loop happens afterwards (no retry, no reconnect).        *)
(***************************************************************************)
ReadFailed == ret.op = "event_loop" /\ ret.result \in {"ReadErr", "NotText"}

C7_ReadErrorFatal ==
    /\ [](ReadFailed =>
            /\ pc = "panicked"
            /\ msg = None
            /\ decodes = <<>>
            /\ calls = <<>>)
    /\ [][ReadFailed => FALSE]_vars

C7_Witness ==
    /\ pc = "panicked"
    /\ ret = [op |-> "event_loop", result |-> "ReadErr"]
    /\ market_handler # None

(***************************************************************************)
(* C8: when the payload of a known category does not decode, event_loop    *)
(* ends by the panic of the unwrap: one from_str call was made, for the    *)
(* category's type (no other category is tried), no method is invoked, and *)
(* nothing of the loop happens afterwards.                                 *)
(***************************************************************************)
C8_DecodeErrorFatal ==
    /\ [](DecodeFailed =>
            /\ HasRead
            /\ FirstHit(msg[1]) # 0
            /\ decodes = << [type |-> Priority[FirstHit(msg[1])].type, ok |-> FALSE] >>
            /\ calls = <<>>
            /\ pc = "panicked"
            /\ ret = [op |-> "event_loop", result |-> "DecodeErr"])
    /\ [][DecodeFailed => FALSE]_vars

\* an aggTrade frame that does not decode, with a market handler registered
C8_Witness ==
    /\ msg = Some(AGGREGATED_TRADE)
    /\ DecodeFailed
    /\ market_handler # None
    /\ pc = "panicked"

(***************************************************************************)
(* C9: connect either succeeds, and then a new channel handle is stored,   *)
(* or fails with a connection error, and then the connection state is what *)
(* it was before the call (Unconnected when no connect had succeeded, the  *)
(* earlier channel otherwise); no connect changes a handler slot.          *)
(***************************************************************************)
ConnectErrors == {"UrlParseError", "HandshakeError"}

C9_ConnectOutcome ==
    [][ret'.op = "connect" =>
          /\ \/ ret'.result = "Ok" /\ socket' # None /\ socket' # socket
             \/ ret'.result \in ConnectErrors /\ socket' = socket
          /\ slots' = slots]_vars

\* a failed connect on a fresh value with a handler registered
C9_Witness ==
    /\ ret = [op |-> "connect", result |-> "HandshakeError"]
    /\ socket = None
    /\ market_handler # None

\* C9 as stated: after a failed connect the state is Unconnected
C9_AsStated ==
    (ret.op = "connect" /\ ret.result \in ConnectErrors) => socket = None

(***************************************************************************)
(* C10: event_loop called before any successful connect ends with an       *)
(* error instead of running as a loop: the pass of the loop that finds no  *)
(* socket ends the call.                                                   *)
(***************************************************************************)
C10_UnconnectedRunIsError ==
    [][(pc = "loop" /\ socket = None) => pc' = "panicked"]_vars

(***************************************************************************)
(* C11: once a connect has succeeded the state never returns to            *)
(* Unconnected, so the transition from Unconnected to Connected happens at *)
(* most once; the stored channel handle changes only by a connect that     *)
(* succeeds, which replaces it.                                            *)
(***************************************************************************)
C11_NeverUnconnectedAgain ==
    [][/\ socket # None => socket' # None
       /\ socket' # socket =>
             /\ pc = "idle"
             /\ ret' = [op |-> "connect", result |-> "Ok"]]_vars

\* a second connect has succeeded and its channel is the one stored
C11_Witness ==
    /\ socket = Some(2)
    /\ ret = [op |-> "connect", result |-> "Ok"]

\* C11 as stated: once Connected, the stored channel handle is never replaced
C11_AsStated ==
    [][socket # None => socket' = socket]_vars

\* control is inside event_loop and has not left it
InLoop == pc \in {"loop", "handler", "end"}

(***************************************************************************)
(* C12: on a Connected channel control leaves the loop only by a panic,    *)
(* raised at the top of a pass by a failed read or a failed decode: an     *)
(* Unknown payload, an empty slot or a dispatched event never ends the     *)
(* loop, and event_loop never returns.                                     *)
(***************************************************************************)
C12_OnlyFatalErrorsStop ==
    [][(InLoop /\ socket # None /\ ~InLoop') =>
          /\ pc = "loop"
          /\ pc' = "panicked"
          /\ ret'.op = "event_loop"
          /\ \/ ret'.result \in {"ReadErr", "NotText"}
             \/ ret'.result = "DecodeErr" /\ DecodeFailed']_vars

\* an event has been dispatched, its handler has returned, the loop runs on
C12_Witness ==
    /\ pc = "end"
    /\ socket # None
    /\ Len(calls) = 1
    /\ Running

(***************************************************************************)
(* C13: the cycles are sequential.  A method is invoked in the pass that   *)
(* read its frame, with the event of that frame; while it runs nothing     *)
(* else happens but its return, so no frame is read before it returns and  *)
(* a method that never returns stops all reading; at most one invocation   *)
(* is in progress, and a frame is read only at the top of the loop, when   *)
(* no invocation of an earlier frame is left.                              *)
(***************************************************************************)
C13_Sequential ==
    /\ [](/\ Len(calls) <= 1
          /\ pc = "handler" => (Len(calls) = 1 /\ HasRead))
    /\ [][/\ pc = "handler" => (pc' = "end" /\ UNCHANGED cycle)
          /\ (msg' # msg /\ msg' # None) => (pc = "loop" /\ msg = None /\ calls = <<>>)
          /\ (calls' # calls /\ calls' # <<>>) =>
                /\ calls = <<>>
                /\ Len(calls') = 1
                /\ pc' = "handler"
                /\ msg' # None
                /\ calls'[1].event.payload = msg'[1]]_vars

\* an invocation in progress: the handler of a kline frame has not returned
C13_Witness ==
    /\ pc = "handler"
    /\ msg = Some(KLINE)
    /\ Len(calls) = 1
    /\ calls[1].method = "kline_handler"

(***************************************************************************)
(* C14: when handlers return and the channel keeps delivering frames that  *)
(* decode, every frame that was read and decoded (dispatched or dropped)   *)
(* is followed by a return to the top of the loop, and every arrival at    *)
(* the top of the loop with a socket is followed by the read of a frame,   *)
(* unless a failed read ends the loop: a loop that no panic ends reads     *)
(* again and again.                                                        *)
(***************************************************************************)
C14_LoopKeepsReading ==
    /\ (HasRead /\ ~DecodeFailed) ~> (pc = "loop")
    /\ (pc = "loop" /\ socket # None) ~> (HasRead \/ pc = "panicked")

\* scenario 2: a depthUpdate frame dispatched, the handler back, the loop
\* about to go round
C14_Witness ==
    /\ msg = Some(DEPTH_DIFF)
    /\ pc = "end"
    /\ Len(calls) = 1
    /\ calls[1].method = "depth_diff_handler"

(***************************************************************************)
(* C15: from_str is called before the slot is looked at: a payload of a    *)
(* known category is decoded whether or not its group has a handler, and   *)
(* when it does not decode and the slot is empty the loop still ends by    *)
(* the panic (it is not dropped in silence).                               *)
(***************************************************************************)
C15_DecodeBeforeLookup ==
    (HasRead /\ FirstHit(msg[1]) # 0) =>
        LET c == Priority[FirstHit(msg[1])]
        IN  /\ Len(decodes) = 1
            /\ decodes[1].type = c.type
            /\ (DecodeFailed /\ Slot(c.group) = None) =>
                  /\ pc = "panicked"
                  /\ calls = <<>>
                  /\ ret = [op |-> "event_loop", result |-> "DecodeErr"]

\* a trade frame that does not decode, with no handler registered at all
C15_Witness ==
    /\ msg = Some(TRADE)
    /\ DecodeFailed
    /\ market_handler = None
    /\ user_stream_handler = None
    /\ kline_handler = None
    /\ pc = "panicked"

(***************************************************************************)
(* C16: a registration writes the slot of its own group and leaves the     *)
(* other two slots and the socket as they were; a connect that succeeds    *)
(* writes the socket and leaves the three slots as they were.              *)
(***************************************************************************)
C16_IndependentSlots ==
    [][/\ ret'.op = "add_user_stream_handler" =>
             /\ user_stream_handler' # None
             /\ UNCHANGED <<socket, market_handler, kline_handler>>
       /\ ret'.op = "add_market_handler" =>
             /\ market_handler' # None
             /\ UNCHANGED <<socket, user_stream_handler, kline_handler>>
       /\ ret'.op = "add_kline_handler" =>
             /\ kline_handler' # None
             /\ UNCHANGED <<socket, user_stream_handler, market_handler>>
       /\ ret' = [op |-> "connect", result |-> "Ok"] =>
             /\ socket' # socket
             /\ UNCHANGED slots]_vars

\* a connect that succeeded after two registrations, both still in place
C16_Witness ==
    /\ ret = [op |-> "connect", result |-> "Ok"]
    /\ socket = Some(1)
    /\ market_handler = Some(1)
    /\ kline_handler = Some(2)
    /\ user_stream_handler = None

(***************************************************************************)
(* C17: event_loop writes neither a handler slot nor the socket: from the  *)
(* call on, through every pass and through the panic that ends it, the     *)
(* three slots and the socket are what they were when the loop started, no *)
(* handler is registered meanwhile, and a method is only ever invoked on a *)
(* handler that is in its slot.                                            *)
(***************************************************************************)
C17_LoopWritesNoField ==
    /\ [][(InLoop \/ InLoop') => UNCHANGED <<socket, slots, history>>]_vars
    /\ [](\A i \in DOMAIN calls :
             \E g \in Groups :
                /\ calls[i].method \in MethodsOf(g)
                /\ Slot(g) = Some(calls[i].handler))

\* after a dispatch to the user-stream handler: it is still in its slot, the
\* kline slot, empty at the start, is still empty
C17_Witness ==
    /\ pc = "end"
    /\ Len(calls) = 1
    /\ calls[1].method = "order_trade_handler"
    /\ user_stream_handler = Some(calls[1].handler)
    /\ kline_handler = None
    /\ socket = Some(1)

=============================================================================
